---- MODULE Spec2Model ----
(***************************************************************************)
(* RaveFlow: the manual beat clock (BeatClock), the onset detector and     *)
(* tempo estimator (BeatDetector), and the animation frame that publishes  *)
(* the estimate to the store.  Real-valued quantities are exact rationals. *)
(***************************************************************************)
EXTENDS Integers, Sequences, FiniteSets, TLC

VARIABLES
    now,            \* performance.now(), in ms
    \* ---- BeatClock fields
    bpm, startTime, lastBeatTime, beatCount, isRunning,
    \* ---- what the caller of BeatClock saw
    info,           \* BeatInfo returned by the latest update()
    prevInfo,       \* BeatInfo returned by the update() before it
    pollTime,       \* time of the latest update() (or of start(), if later)
    prevPollTime,   \* value of pollTime when the latest update() was entered
    fastestBpm,     \* highest BPM in effect since the latest update()
    startedSince,   \* start() ran since the latest update()
    stoppedSince,   \* stop() ran since the latest update()
    ran,            \* the latest update() found the clock running
    chained,        \* the latest two update() calls found it running, no stop() between
    contig,         \* chained, no start() between, and less than one beat apart
    steady,         \* since start(): no setBPM()/stop(), polls < 1 beat apart
    op,             \* name of the latest operation
    bpmBefore,      \* this.bpm when the latest setBPM() was entered
    phaseBefore,    \* getPhase() when the latest setBPM() was entered
    nSetBPM,        \* number of setBPM() calls so far
    nStart,         \* number of start() calls so far
    \* ---- BeatDetector fields (energies in units of 1/EnergyOne,
    \*      sensitivity and smoothing in hundredths)
    sensitivity, smoothing, energyHistory, lastEnergy,
    onsetTimes, estimatedBPM, bpmLocked, lockedBPM, lastOnsetTime,
    \* ---- what the caller of BeatDetector saw
    detected,       \* value returned by the latest detectOnset()
    above,          \* the latest detectOnset() found energy > threshold
    nFrames,        \* detectOnset() calls since construction or reset()
    onsetsBefore,   \* onsetTimes when the latest detectOnset() was entered
    lastOnsetBefore,\* lastOnsetTime when the latest detectOnset() was entered
    bpmShown,       \* getEstimatedBPM() when the latest operation was entered
    nResets,        \* number of reset() calls so far
    detOp,          \* name of the latest BeatDetector operation
    bpmAtLock,      \* getEstimatedBPM() right after the lockBPM() that locked it
    nLocks,         \* number of lockBPM()/unlockBPM() calls so far
    \* ---- AudioAnalyzer fields
    anMicStatus,    \* AudioAnalyzer.micStatus
    analyser,       \* the AnalyserNode exists
    micPending,     \* a startMic() call waits for getUserMedia
    anIsOnset, anLastOnsetTime,
    \* ---- store (useStore)
    isPaused, micMode, micStatus, autoBPM, isBpmLocked,
    \* ---- what the user saw
    autoAtLock,     \* autoBPM when the Lock button was switched on
    frameBranch,    \* beat source used by the latest animation frame
    nUiOps,         \* number of button presses so far
    appOp,          \* name of the latest operation of the application
    lastTime,       \* lastTimeRef.current of Canvas
    frameDelta,     \* deltaTime given to the scene by the latest frame that had one
    sceneUpdated,   \* the latest frame updated and rendered the scene
    frameTime,      \* time of the latest animation frame
    prevFrameTime,  \* time of the animation frame before it
    prevFramePaused,\* that frame found isPaused
    fwdIsOnset,     \* beatInfo.isOnset given to the scene by the latest frame
    anUpdateTime,   \* time of the latest AudioAnalyzer.update() call, -1 for none
    \* ---- a steady beat fed to the detector
    warmGap,        \* ms between the onsets heard first
    steadyGap,      \* ms between the onsets of the steady beat
    warmFed,        \* onsets heard before the steady beat
    steadyFed,      \* onsets of the steady beat heard so far
    \* ---- the smoothing step of estimateBPM() applied again and again
    smoothEst,      \* the estimate
    smoothCand,     \* the candidate BPM, the same at every step
    smoothStart,    \* the estimate before the first step
    smoothRuns,     \* number of steps so far
    \* ---- TapTempo and the manual BPM of the store
    taps,           \* TapTempo.taps
    storeBpm,       \* bpm of the store
    tapResult,      \* value returned by the latest tap(), NoBpm for null
    tapsBefore,     \* taps when the latest tap() was entered
    tapRun,         \* every tap since the latest gap of more than 2000 ms
    storeBpmBefore, \* bpm of the store when the latest tap() was entered
    nTaps,          \* number of tap() calls so far
    longPeriod,     \* one frame in longPeriod is loud
    longGap,        \* ms between two frames of the long run
    energyLog,      \* every energy pushed since construction or reset()
    onsetLog,       \* every onset time recorded since construction or reset()
    anSensitivity,  \* AudioAnalyzer.sensitivity, in hundredths
    anSmoothing,    \* AudioAnalyzer.smoothing, in hundredths
    nMicStarts,     \* number of startMic() calls so far
    nSettings,      \* number of times the settings were applied
    \* ---- scenes: the store and the SceneManager
    currentSceneIndex, sceneCount,
    managerIndex,   \* SceneManager.currentSceneIndex
    sceneOp,        \* name of the latest scene command
    prevSceneOp,    \* name of the scene command before it
    sceneBefore,    \* currentSceneIndex when the latest command was given
    sceneBefore2,   \* currentSceneIndex when the command before it was given
    keyPressed,     \* the number key of the latest number-key command
    nSceneOps,      \* number of scene commands so far
    \* ---- the analyzer's MediaStream
    anStream,       \* this.stream: the number of the stream held, 0 for null
    liveStreams,    \* streams obtained whose tracks have not been stopped
    nStreams,       \* number of streams obtained from getUserMedia so far
    pendingCalls,   \* startMic() calls waiting for getUserMedia
    \* ---- audio features
    smoothedFeatures, \* AudioAnalyzer.smoothedFeatures: bass, mid, high, energy
    masterIntensity,  \* the store's masterIntensity
    fwdFeatures,      \* the features given to the scene by the latest frame
    updatedFeatures,  \* smoothedFeatures as the latest update() left them
    featureOp,        \* name of the latest operation on the features
    nFeatureFrames    \* number of frames followed

clockVars == << bpm, startTime, lastBeatTime, beatCount, isRunning >>
callerVars == << info, prevInfo, pollTime, prevPollTime, fastestBpm, startedSince,
                 stoppedSince, ran, chained, contig, steady, op, bpmBefore,
                 phaseBefore, nSetBPM, nStart >>
detVars == << sensitivity, smoothing, energyHistory, lastEnergy, onsetTimes,
              estimatedBPM, bpmLocked, lockedBPM, lastOnsetTime >>
detCallerVars == << detected, above, nFrames, onsetsBefore, lastOnsetBefore,
                    bpmShown, nResets, detOp >>
lockVars == << bpmAtLock, nLocks >>
analyzerVars == << anMicStatus, analyser, micPending, anIsOnset, anLastOnsetTime >>
storeVars == << isPaused, micMode, micStatus, autoBPM, isBpmLocked >>
frameGhosts == << lastTime, frameDelta, sceneUpdated, frameTime, prevFrameTime,
                  prevFramePaused, fwdIsOnset, anUpdateTime >>
userVars == << autoAtLock, frameBranch, nUiOps, appOp, frameGhosts >>
steadyVars == << warmGap, steadyGap, warmFed, steadyFed >>
appVars == << analyzerVars, storeVars, userVars >>
smoothVars == << smoothEst, smoothCand, smoothStart, smoothRuns >>
tapVars == << taps, storeBpm, tapResult, tapsBefore, tapRun, storeBpmBefore, nTaps >>
longVars == << longPeriod, longGap, energyLog, onsetLog >>
settingVars == << anSensitivity, anSmoothing, nMicStarts, nSettings >>
sceneVars == << currentSceneIndex, sceneCount, managerIndex, sceneOp, prevSceneOp,
                sceneBefore, sceneBefore2, keyPressed, nSceneOps >>
streamVars == << anStream, liveStreams, nStreams, pendingCalls >>
featureVars == << smoothedFeatures, masterIntensity, fwdFeatures, updatedFeatures,
                  featureOp, nFeatureFrames >>
restVars == << smoothVars, tapVars, longVars, settingVars, sceneVars, streamVars,
               featureVars >>
scenarioVars == << lockVars, appVars, steadyVars, restVars >>
vars == << now, clockVars, callerVars, detVars, detCallerVars, scenarioVars >>

----------------------------------------------------------------------------
(* Bounds of the model *)
MaxTime == 900          \* the clock is followed up to this time (ms)
MaxSetBPM == 1          \* number of setBPM() calls followed
MaxStart == 1           \* number of start() calls followed

MsPerMinute == 60000
DefaultBpm == 140        \* BeatClock's bpm after construction
DecayTenths == 3        \* decayTime = beatDuration * 0.3

BpmSet == {120, 150}                 \* BPM values given to setBPM()
TickSet == {100, 300}                \* ms between two operations

----------------------------------------------------------------------------
(* Exact rational arithmetic: a number is [n |-> numerator, d |-> denominator > 0] *)
RECURSIVE Gcd(_, _)
Gcd(a, b) == IF b = 0 THEN a ELSE Gcd(b, a % b)

Abs(x) == IF x < 0 THEN -x ELSE x

Rat(n, d) ==
    LET s == IF d < 0 THEN -1 ELSE 1
        g == Gcd(Abs(n), Abs(d))
    IN  [n |-> (s * n) \div g, d |-> (s * d) \div g]

R(i) == [n |-> i, d |-> 1]
RAdd(a, b) == Rat(a.n * b.d + b.n * a.d, a.d * b.d)
RSub(a, b) == Rat(a.n * b.d - b.n * a.d, a.d * b.d)
RMul(a, b) == Rat(a.n * b.n, a.d * b.d)
RDiv(a, b) == Rat(a.n * b.d, a.d * b.n)
RLt(a, b) == a.n * b.d < b.n * a.d
RLe(a, b) == a.n * b.d <= b.n * a.d
RMax(a, b) == IF RLt(a, b) THEN b ELSE a
\* Math.floor
RFloor(a) == a.n \div a.d
\* JavaScript's %: the remainder has the sign of the dividend
RTrunc(a) == IF a.n >= 0 THEN a.n \div a.d ELSE -((-a.n) \div a.d)
RMod(a, b) == RSub(a, RMul(b, R(RTrunc(RDiv(a, b)))))

----------------------------------------------------------------------------
(* BeatClock *)

BeatDuration(b) == Rat(MsPerMinute, b)

\* (elapsed % beatDuration) / beatDuration
PhaseAt(t, start, b) ==
    RDiv(RMod(RSub(R(t), start), BeatDuration(b)), BeatDuration(b))

GetPhase == IF ~isRunning THEN R(0) ELSE PhaseAt(now, startTime, bpm)

\* startTime after a BPM change: performance.now() - currentPhase * beatDuration
SetBPMStartStale(t, currentPhase, newBpm, oldBpm) ==
    RSub(R(t), RMul(currentPhase, BeatDuration(oldBpm)))

SetBPMStart(t, currentPhase, newBpm, oldBpm) ==
    RSub(R(t), RMul(currentPhase, BeatDuration(newBpm)))

CurrentBeat(t, start, b) == RFloor(RDiv(RSub(R(t), start), BeatDuration(b)))

IntensityUnclamped(t, lastBeat, b) ==
    RSub(R(1), RDiv(RSub(R(t), lastBeat), RMul(BeatDuration(b), Rat(DecayTenths, 10))))

\* Math.max(0, 1 - timeSinceLastBeat / (beatDuration * 0.3))
Intensity(t, lastBeat, b) ==
    RMax(R(0), RSub(R(1), RDiv(RSub(R(t), lastBeat),
                               RMul(BeatDuration(b), Rat(DecayTenths, 10)))))

NeutralInfo(b) == [phase |-> R(0), intensity |-> R(0), isOnset |-> FALSE, bpm |-> b]

IsOnsetNaive(currentBeat, count) == currentBeat >= count

IsOnsetAt(currentBeat, count) == currentBeat > count

\* the BeatInfo update() returns at time t
UpdateInfo(t) ==
    LET currentBeat == CurrentBeat(t, startTime, bpm)
        onset == IsOnsetAt(currentBeat, beatCount)
        last == IF onset THEN R(t) ELSE lastBeatTime
    IN  [phase |-> PhaseAt(t, startTime, bpm),
         intensity |-> Intensity(t, last, bpm),
         isOnset |-> onset,
         bpm |-> bpm]

Max(a, b) == IF a < b THEN b ELSE a

Min(a, b) == IF a < b THEN a ELSE b

----------------------------------------------------------------------------
(* Natural numbers beyond the range of a machine integer: five digits of base *)
(* BigBase, least significant first.                                          *)
BigBase == 2^15

BigNorm(a0, a1, a2, a3, a4) ==
    LET t1 == a1 + (a0 \div BigBase)
        t2 == a2 + (t1 \div BigBase)
        t3 == a3 + (t2 \div BigBase)
        t4 == a4 + (t3 \div BigBase)
    IN  << a0 % BigBase, t1 % BigBase, t2 % BigBase, t3 % BigBase, t4 >>

BigZero == << 0, 0, 0, 0, 0 >>

\* x * y for 0 <= x, y < 2^30
BigOfProd(x, y) ==
    LET x0 == x % BigBase
        x1 == x \div BigBase
        y0 == y % BigBase
        y1 == y \div BigBase
    IN  BigNorm(x0 * y0, x1 * y0 + x0 * y1, x1 * y1, 0, 0)

BigAdd(p, q) == BigNorm(p[1] + q[1], p[2] + q[2], p[3] + q[3], p[4] + q[4], p[5] + q[5])

\* p * m for 0 <= m < BigBase
BigScale(p, m) == BigNorm(p[1] * m, p[2] * m, p[3] * m, p[4] * m, p[5] * m)

RECURSIVE BigLtFrom(_, _, _)
BigLtFrom(p, q, i) ==
    IF i = 0 THEN FALSE
    ELSE IF p[i] # q[i] THEN p[i] < q[i]
    ELSE BigLtFrom(p, q, i - 1)

BigLt(p, q) == BigLtFrom(p, q, 5)

----------------------------------------------------------------------------
(* BeatDetector *)

EnergyOne == 2^15       \* the energy 1.0
Hundred == 100          \* sensitivity and smoothing are held in hundredths
historySize == 43
maxOnsets == 32
minOnsetInterval == 200
MinHistory == 10
InitialBPM == 140
DefaultSensitivity == 50
DefaultSmoothing == 80
MaxSmoothing == 99
SensitivityBase == 150  \* sensitivityFactor = 1.5 - sensitivity

Clamp(v, lo, hi) == IF v < lo THEN lo ELSE IF v > hi THEN hi ELSE v

\* energy = lastEnergy * smoothing + energy * (1 - smoothing)
SmoothEnergy(last, raw, sm) == (last * sm + raw * (Hundred - sm)) \div Hundred

\* energyHistory.push(energy); shift() beyond historySize
PushHistory(h, e) ==
    LET g == Append(h, e)
    IN  IF Len(g) > historySize THEN Tail(g) ELSE g

RECURSIVE SumSeq(_)
SumSeq(h) == IF h = << >> THEN 0 ELSE Head(h) + SumSeq(Tail(h))

\* the sum of the squares of h, for entries below BigBase
RECURSIVE SumSquaresLow(_)
SumSquaresLow(h) ==
    IF h = << >> THEN 0 ELSE ((Head(h) * Head(h)) % BigBase) + SumSquaresLow(Tail(h))

RECURSIVE SumSquaresHigh(_)
SumSquaresHigh(h) ==
    IF h = << >> THEN 0 ELSE ((Head(h) * Head(h)) \div BigBase) + SumSquaresHigh(Tail(h))

SumSquares(h) == BigNorm(SumSquaresLow(h), SumSquaresHigh(h), 0, 0, 0)

\* energy > avgEnergy + stdDev * (1.5 - sensitivity), over the history h that
\* already holds energy e.  With n = Len(h), S = sum, Q = sum of squares and
\* m = 150 - sensitivity:  n*e - S > 0  and  100^2 (n*e - S)^2 > m^2 (n*Q - S^2).
AboveThreshold(h, e, sens) ==
    LET n == Len(h)
        S == SumSeq(h)
        D == n * e - S
        m2 == (SensitivityBase - sens) * (SensitivityBase - sens)
    IN  /\ D > 0
        /\ BigLt(BigScale(BigScale(SumSquares(h), m2), n),
                 BigAdd(BigScale(BigOfProd(D, D), Hundred * Hundred),
                        BigScale(BigOfProd(S, S), m2)))

EnoughHistoryLax(n) == n >= 1

\* the cold-start guard: energyHistory.length < 10 returns false
EnoughHistory(n) == n >= MinHistory

OnsetGateNoDebounce(isAbove, t, lastOnset) == isAbove

\* energy > threshold && (now - lastOnsetTime) > minOnsetInterval
OnsetGate(isAbove, t, lastOnset) == isAbove /\ (t - lastOnset) > minOnsetInterval

PushOnsetDropNewest(times, t) ==
    IF Len(times) >= maxOnsets THEN times ELSE Append(times, t)

\* onsetTimes.push(time); shift() beyond maxOnsets
PushOnset(times, t) ==
    LET g == Append(times, t)
    IN  IF Len(g) > maxOnsets THEN Tail(g) ELSE g

\* Math.round for a non-negative quotient p / q
RoundDiv(p, q) == (2 * p + q) \div (2 * q)

BucketSize == 10
MinInterval == 315
MaxInterval == 500
MinOnsetCount == 4
MinIntervalCount == 2
MinBPM == 120
MaxBPM == 190
KeepTenths == 7         \* estimatedBPM * 0.7
BlendTenths == 3        \* bpm * 0.3

\* the consecutive intervals that pass the filter, in order
RECURSIVE Intervals(_)
Intervals(times) ==
    IF Len(times) < 2 THEN << >>
    ELSE LET interval == times[2] - times[1]
             rest == Intervals(Tail(times))
         IN  IF interval > MinInterval /\ interval < MaxInterval
               THEN << interval >> \o rest ELSE rest

Bucket(interval) == RoundDiv(interval, BucketSize) * BucketSize

Count(ivs, b) == Cardinality({i \in 1..Len(ivs) : Bucket(ivs[i]) = b})

FirstInterval(ivs) == Bucket(ivs[1])

\* the first bucket, in order of first appearance, whose count is the largest
BestInterval(ivs) ==
    LET first == CHOOSE i \in 1..Len(ivs) :
                    /\ \A j \in 1..Len(ivs) : Count(ivs, Bucket(ivs[j])) <= Count(ivs, Bucket(ivs[i]))
                    /\ \A j \in 1..(i - 1) : Count(ivs, Bucket(ivs[j])) < Count(ivs, Bucket(ivs[i]))
    IN  Bucket(ivs[first])

\* the pairs (estimatedBPM, bpm) in [120,190] for which estimatedBPM * 0.7 + bpm * 0.3
\* is exactly halfway between two integers, and its IEEE-754 double value just below
FloatTiesDown ==
    { << 121, 126 >>, << 121, 136 >>, << 126, 121 >>, << 126, 131 >> }
    \cup { << 184, 129 + 10 * k >> : k \in 0..6 }
    \cup { << 189, 124 + 10 * k >> : k \in 0..6 }

BlendUnscaled(est, cand) == KeepTenths * est + BlendTenths * cand

\* Math.round(estimatedBPM * 0.7 + bpm * 0.3)
Blend(est, cand) ==
    IF << est, cand >> \in FloatTiesDown
      THEN (KeepTenths * est + BlendTenths * cand) \div 10
      ELSE RoundDiv(KeepTenths * est + BlendTenths * cand, 10)

EstimateEager(times, est) ==
    LET ivs == Intervals(times)
    IN  IF Len(ivs) < MinIntervalCount THEN est
        ELSE Blend(est, RoundDiv(MsPerMinute, BestInterval(ivs)))

\* estimatedBPM after estimateBPM()
EstimateBPM(times, est) ==
    IF Len(times) < MinOnsetCount THEN est
    ELSE LET ivs == Intervals(times)
         IN  IF Len(ivs) < MinIntervalCount THEN est
             ELSE LET cand == RoundDiv(MsPerMinute, BestInterval(ivs))
                  IN  IF cand >= MinBPM /\ cand <= MaxBPM THEN Blend(est, cand) ELSE est

EstimateAlways(locked, times, est) == EstimateBPM(times, est)

\* estimatedBPM after recordOnset(): re-estimated unless locked
EstimateUnlessLocked(locked, times, est) ==
    IF locked THEN est ELSE EstimateBPM(times, est)

GetEstimatedBPM == IF bpmLocked THEN lockedBPM ELSE estimatedBPM

\* new BeatDetector()
DetNew ==
    /\ sensitivity = DefaultSensitivity
    /\ smoothing = DefaultSmoothing
    /\ energyHistory = << >>
    /\ lastEnergy = 0
    /\ onsetTimes = << >>
    /\ estimatedBPM = InitialBPM
    /\ bpmLocked = FALSE
    /\ lockedBPM = InitialBPM
    /\ lastOnsetTime = 0

DetCallerInit ==
    /\ detected = FALSE
    /\ above = FALSE
    /\ nFrames = 0
    /\ onsetsBefore = << >>
    /\ lastOnsetBefore = 0
    /\ bpmShown = InitialBPM
    /\ nResets = 0
    /\ detOp = "new"

\* no lockBPM() yet
LockIdle ==
    /\ bpmAtLock = InitialBPM
    /\ nLocks = 0

NoBpm == 0              \* stands for null, no BPM

\* no smoothing step taken
SmoothIdle ==
    /\ smoothEst = InitialBPM
    /\ smoothCand = InitialBPM
    /\ smoothStart = InitialBPM
    /\ smoothRuns = 0

\* new TapTempo(), and the store's initial bpm
TapNew ==
    /\ taps = << >>
    /\ storeBpm = DefaultBpm
    /\ tapResult = NoBpm
    /\ tapsBefore = << >>
    /\ tapRun = << >>
    /\ storeBpmBefore = DefaultBpm
    /\ nTaps = 0

\* no long run of frames
LongIdle ==
    /\ longPeriod = 1
    /\ longGap = 0
    /\ energyLog = << >>
    /\ onsetLog = << >>

\* the settings of a new AudioAnalyzer
SettingsNew ==
    /\ anSensitivity = DefaultSensitivity
    /\ anSmoothing = DefaultSmoothing
    /\ nMicStarts = 0
    /\ nSettings = 0

ManagerScenes == 15     \* SceneManager.scenes.length after init()

\* no scene command yet, the store knowing count scenes
ScenesNew(count) ==
    /\ currentSceneIndex = 0
    /\ sceneCount = count
    /\ managerIndex = 0
    /\ sceneOp = "none"
    /\ prevSceneOp = "none"
    /\ sceneBefore = 0
    /\ sceneBefore2 = 0
    /\ keyPressed = 0
    /\ nSceneOps = 0

\* no stream obtained yet
StreamsNew ==
    /\ anStream = 0
    /\ liveStreams = {}
    /\ nStreams = 0
    /\ pendingCalls = 0

\* defaultAudioFeatures, without the spectrum and the waveform
DefaultFeatures == [bass |-> R(0), mid |-> R(0), high |-> R(0), energy |-> R(0)]
DefaultMasterIntensity == R(1)

FeaturesNew ==
    /\ smoothedFeatures = DefaultFeatures
    /\ masterIntensity = DefaultMasterIntensity
    /\ fwdFeatures = DefaultFeatures
    /\ updatedFeatures = DefaultFeatures
    /\ featureOp = "new"
    /\ nFeatureFrames = 0

OtherIdle == ScenesNew(ManagerScenes) /\ StreamsNew /\ FeaturesNew

RestIdle == SmoothIdle /\ TapNew /\ LongIdle /\ SettingsNew /\ OtherIdle

\* new AudioAnalyzer()
AnalyzerNew ==
    /\ anMicStatus = "off"
    /\ analyser = FALSE
    /\ micPending = FALSE
    /\ anIsOnset = FALSE
    /\ anLastOnsetTime = 0

\* the store's initial state
StoreInit ==
    /\ isPaused = FALSE
    /\ micMode = FALSE
    /\ micStatus = "off"
    /\ autoBPM = InitialBPM
    /\ isBpmLocked = FALSE

UserInit ==
    /\ autoAtLock = InitialBPM
    /\ frameBranch = "none"
    /\ nUiOps = 0
    /\ appOp = "mount"
    /\ lastTime = 0
    /\ frameDelta = 0
    /\ sceneUpdated = FALSE
    /\ frameTime = 0
    /\ prevFrameTime = 0
    /\ prevFramePaused = FALSE
    /\ fwdIsOnset = FALSE
    /\ anUpdateTime = -1

AppIdle == AnalyzerNew /\ StoreInit /\ UserInit /\ RestIdle

SteadyIdle ==
    /\ warmGap = 0
    /\ steadyGap = 0
    /\ warmFed = 0
    /\ steadyFed = 0

DetIdle == DetNew /\ DetCallerInit /\ LockIdle /\ AppIdle /\ SteadyIdle

ClockInit ==
    /\ now = 0
    /\ bpm = DefaultBpm
    /\ startTime = R(0)
    /\ lastBeatTime = R(0)
    /\ beatCount = 0
    /\ isRunning = FALSE
    /\ info = NeutralInfo(bpm)
    /\ prevInfo = NeutralInfo(bpm)
    /\ pollTime = 0
    /\ prevPollTime = 0
    /\ fastestBpm = bpm
    /\ startedSince = FALSE
    /\ stoppedSince = FALSE
    /\ ran = FALSE
    /\ chained = FALSE
    /\ contig = FALSE
    /\ steady = FALSE
    /\ op = "new"
    /\ bpmBefore = bpm
    /\ phaseBefore = R(0)
    /\ nSetBPM = 0
    /\ nStart = 0

\* time passes between two calls
Tick ==
    \E dt \in TickSet :
        /\ now + dt <= MaxTime
        /\ now' = now + dt
        /\ op' = "tick"
        /\ UNCHANGED << clockVars, info, prevInfo, pollTime, prevPollTime, fastestBpm,
                        startedSince, stoppedSince, ran, chained, contig, steady,
                        bpmBefore, phaseBefore, nSetBPM, nStart >>
        /\ UNCHANGED << detVars, detCallerVars, scenarioVars >>

Start ==
    /\ nStart < MaxStart
    /\ nStart' = nStart + 1
    /\ startTime' = R(now)
    /\ lastBeatTime' = R(now)
    /\ beatCount' = 0
    /\ isRunning' = TRUE
    /\ pollTime' = now
    /\ startedSince' = TRUE
    /\ steady' = TRUE
    /\ fastestBpm' = bpm
    /\ op' = "start"
    /\ UNCHANGED << now, bpm, info, prevInfo, prevPollTime, stoppedSince, ran,
                    chained, contig, bpmBefore, phaseBefore, nSetBPM >>
    /\ UNCHANGED << detVars, detCallerVars, scenarioVars >>

Stop ==
    /\ isRunning
    /\ isRunning' = FALSE
    /\ stoppedSince' = TRUE
    /\ steady' = FALSE
    /\ op' = "stop"
    /\ UNCHANGED << now, bpm, startTime, lastBeatTime, beatCount, info, prevInfo,
                    pollTime, prevPollTime, fastestBpm, startedSince, ran, chained,
                    contig, bpmBefore, phaseBefore, nSetBPM, nStart >>
    /\ UNCHANGED << detVars, detCallerVars, scenarioVars >>

SetBPM ==
    \E b \in BpmSet :
        /\ nSetBPM < MaxSetBPM
        /\ nSetBPM' = nSetBPM + 1
        /\ bpmBefore' = bpm
        /\ phaseBefore' = GetPhase
        /\ IF b # bpm
             THEN /\ bpm' = b
                  /\ startTime' = SetBPMStart(now, GetPhase, b, bpm)
             ELSE UNCHANGED << bpm, startTime >>
        /\ fastestBpm' = Max(fastestBpm, b)
        /\ steady' = (steady /\ b = bpm)
        /\ op' = "setBPM"
        /\ UNCHANGED << now, lastBeatTime, beatCount, isRunning, info, prevInfo,
                        pollTime, prevPollTime, startedSince, stoppedSince, ran,
                        chained, contig, nStart >>
        /\ UNCHANGED << detVars, detCallerVars, scenarioVars >>

\* update() at time t, as seen by the clock and its caller
UpdateClock(t) ==
    /\ prevInfo' = info
    /\ prevPollTime' = pollTime
    /\ pollTime' = t
    /\ startedSince' = FALSE
    /\ stoppedSince' = FALSE
    /\ fastestBpm' = bpm
    /\ ran' = isRunning
    /\ chained' = (ran /\ isRunning /\ ~stoppedSince)
    /\ contig' = (chained' /\ ~startedSince /\ (t - pollTime) * fastestBpm < MsPerMinute)
    /\ op' = "update"
    /\ IF ~isRunning
         THEN /\ info' = NeutralInfo(bpm)
              /\ steady' = FALSE
              /\ UNCHANGED << beatCount, lastBeatTime >>
         ELSE /\ info' = UpdateInfo(t)
              /\ beatCount' = IF info'.isOnset
                                THEN CurrentBeat(t, startTime, bpm) ELSE beatCount
              /\ lastBeatTime' = IF info'.isOnset THEN R(t) ELSE lastBeatTime
              /\ steady' = (steady /\ (t - pollTime) * bpm < MsPerMinute)
    /\ UNCHANGED << bpm, startTime, isRunning, bpmBefore, phaseBefore, nSetBPM, nStart >>

Update ==
    /\ UpdateClock(now)
    /\ UNCHANGED << now, detVars, detCallerVars, scenarioVars >>

Init == ClockInit /\ DetIdle

Next == Tick \/ Start \/ Stop \/ SetBPM \/ Update

Spec == Init /\ [][Next]_vars

----------------------------------------------------------------------------
(* Claims about BeatClock *)

\* C3: on a clock started at s and polled with a fixed BPM at times less than one
\* beat apart, update() reports an onset exactly on the first poll at or after
\* s + k * beatDuration, k >= 1, and on no other poll.
C3_OnsetOncePerBeat ==
    (op = "update" /\ steady) =>
        (info.isOnset <=>
            \E k \in 1..((MaxTime * bpm) \div MsPerMinute + 1) :
                LET boundary == RAdd(startTime, RMul(R(k), BeatDuration(bpm)))
                IN  /\ RLt(R(prevPollTime), boundary)
                    /\ RLe(boundary, R(pollTime)))

C3_Witness ==
    op = "update" /\ steady /\ info.isOnset /\ beatCount = 2

\* C4: on a running clock, across update() and setBPM() calls, an update() less
\* than one beat after the previous one reports a phase lower than the previous
\* one exactly when it reports an onset.
C4_PhaseWrapIffOnset ==
    (op = "update" /\ contig) =>
        (RLt(info.phase, prevInfo.phase) <=> info.isOnset)

\* C5: setBPM() on a running clock leaves the phase at that instant unchanged.
C5_PhaseContinuity ==
    (op = "setBPM" /\ isRunning) => GetPhase = phaseBefore

C5_Witness ==
    /\ op = "setBPM" /\ isRunning /\ bpm # bpmBefore
    /\ beatCount >= 1 /\ RLt(R(0), GetPhase)

\* C6: from one update() to the next, across update(), setBPM() and start(), the
\* intensity does not increase unless the later update() reports an onset; it is 1
\* on an onset and 0 once 30% of a beat has passed since the last onset.
C6_IntensityDecays ==
    (op = "update" /\ chained) =>
        /\ (~info.isOnset => RLe(info.intensity, prevInfo.intensity))
        /\ (info.isOnset => info.intensity = R(1))
        /\ ((beatCount >= 1 /\
              RLe(RMul(BeatDuration(bpm), Rat(DecayTenths, 10)), RSub(R(now), lastBeatTime)))
                => info.intensity = R(0))

\* C18: every BeatInfo returned by update() has phase in [0,1), intensity in [0,1]
\* and the current BPM; on a stopped clock it is {phase 0, intensity 0, isOnset
\* false, bpm}.
C18_BeatInfoRanges ==
    (op = "update") =>
        /\ RLe(R(0), info.phase) /\ RLt(info.phase, R(1))
        /\ RLe(R(0), info.intensity) /\ RLe(info.intensity, R(1))
        /\ info.bpm = bpm
        /\ (~ran => info = [phase |-> R(0), intensity |-> R(0),
                            isOnset |-> FALSE, bpm |-> bpm])

C18_Witness ==
    /\ op = "update" /\ ran /\ bpm # DefaultBpm /\ beatCount >= 1
    /\ RLt(R(0), info.phase)
    /\ RLt(R(0), info.intensity) /\ RLt(info.intensity, R(1))

----------------------------------------------------------------------------
(* The detector fed frame by frame.  A frame is given by its raw energy, the  *)
(* value of Math.sqrt(energy / frequencyData.length) in detectOnset().        *)

MaxFrames == 12         \* detectOnset() calls followed after construction or reset()
MaxResets == 1          \* number of reset() calls followed
MaxDetTime == 1500      \* frames are followed up to this time (ms)

RawSet == {0, EnergyOne}             \* raw energy of a frame: silence or full scale
FrameGapSet == {100, 201}            \* ms between two frames
SensSet == {50, 100}                 \* setSensitivity() values, in hundredths
SmoothSet == {0, 50}                 \* setSmoothing() values, in hundredths

\* new BeatDetector(); setSensitivity(s); setSmoothing(a)
DetConfigured ==
    /\ sensitivity \in {Clamp(v, 0, Hundred) : v \in SensSet}
    /\ smoothing \in {Clamp(v, 0, MaxSmoothing) : v \in SmoothSet}
    /\ energyHistory = << >>
    /\ lastEnergy = 0
    /\ onsetTimes = << >>
    /\ estimatedBPM = InitialBPM
    /\ bpmLocked = FALSE
    /\ lockedBPM = InitialBPM
    /\ lastOnsetTime = 0

\* the end of detectOnset() at time t, isAbove telling whether the history holds
\* 10 samples and the energy exceeds the threshold: the onset test, recordOnset()
\* and estimateBPM()
DetectTail(t, isAbove) ==
    \E isOnset \in {OnsetGate(isAbove, t, lastOnsetTime)} :
      \E times \in {IF isOnset THEN PushOnset(onsetTimes, t) ELSE onsetTimes} :
        /\ lastOnsetTime' = IF isOnset THEN t ELSE lastOnsetTime
        /\ onsetTimes' = times
        /\ estimatedBPM' = IF isOnset
                             THEN EstimateUnlessLocked(bpmLocked, times, estimatedBPM)
                             ELSE estimatedBPM
        /\ detected' = isOnset
        /\ above' = isAbove
        /\ nFrames' = nFrames + 1
        /\ onsetsBefore' = onsetTimes
        /\ lastOnsetBefore' = lastOnsetTime
        /\ bpmShown' = GetEstimatedBPM
        /\ detOp' = "detect"
        /\ UNCHANGED << bpmLocked, lockedBPM >>

\* detectOnset() at time t on a frame of raw energy raw
DetectAt(t, raw) ==
    \E energy \in {SmoothEnergy(lastEnergy, raw, smoothing)} :
      \E h \in {PushHistory(energyHistory, energy)} :
        /\ lastEnergy' = energy
        /\ energyHistory' = h
        /\ DetectTail(t, EnoughHistory(Len(h)) /\ AboveThreshold(h, energy, sensitivity))

\* a frame arrives dt ms after the previous one
DetectOnset ==
    \E dt \in FrameGapSet, raw \in RawSet :
        /\ nFrames < MaxFrames
        /\ now + dt <= MaxDetTime
        /\ now' = now + dt
        /\ DetectAt(now + dt, raw)
        /\ UNCHANGED << sensitivity, smoothing, nResets >>
        /\ UNCHANGED << clockVars, callerVars, scenarioVars >>

\* reset()
ResetDetector ==
    /\ nResets' = nResets + 1
    /\ energyHistory' = << >>
    /\ onsetTimes' = << >>
    /\ lastEnergy' = 0
    /\ lastOnsetTime' = 0
    /\ estimatedBPM' = InitialBPM
    /\ bpmLocked' = FALSE
    /\ nFrames' = 0
    /\ detected' = FALSE
    /\ above' = FALSE
    /\ onsetsBefore' = onsetTimes
    /\ lastOnsetBefore' = lastOnsetTime
    /\ bpmShown' = GetEstimatedBPM
    /\ detOp' = "reset"
    /\ UNCHANGED << sensitivity, smoothing, lockedBPM >>

Reset ==
    /\ nResets < MaxResets
    /\ ResetDetector
    /\ UNCHANGED << now, clockVars, callerVars, scenarioVars >>

DetInit == ClockInit /\ DetConfigured /\ DetCallerInit /\ LockIdle /\ AppIdle /\ SteadyIdle

DetNext == DetectOnset \/ Reset

DetSpec == DetInit /\ [][DetNext]_vars

----------------------------------------------------------------------------
(* Claims about detectOnset() *)

\* C7: on a new or reset detector each of the first 9 detectOnset() calls returns
\* false, records no onset and leaves the BPM estimate as it was.
C7_ColdStart ==
    (detOp = "detect" /\ nFrames <= MinHistory - 1) =>
        /\ ~detected
        /\ onsetTimes = << >>
        /\ onsetTimes = onsetsBefore
        /\ GetEstimatedBPM = bpmShown

C7_Witness ==
    /\ detOp = "detect" /\ nResets = 1 /\ nFrames = MinHistory - 1
    /\ energyHistory[1] = 0
    /\ energyHistory[MinHistory - 1] = EnergyOne

\* C8: two consecutive onsets of one detector are at least 200 ms apart, and a frame
\* above the threshold less than 200 ms after an onset returns false and records
\* nothing.
C8_Refractory ==
    /\ \A i \in 1..(Len(onsetTimes) - 1) :
            onsetTimes[i + 1] - onsetTimes[i] >= minOnsetInterval
    /\ (detOp = "detect" /\ above /\ onsetsBefore # << >>
            /\ now - lastOnsetBefore < minOnsetInterval)
         => (~detected /\ onsetTimes = onsetsBefore)

C8_Witness ==
    /\ detOp = "detect" /\ detected
    /\ Len(onsetTimes) = 2
    /\ Len(energyHistory) = MinHistory + 2
    /\ energyHistory[MinHistory + 1] = EnergyOne
    /\ onsetTimes[2] - onsetTimes[1] > minOnsetInterval
    /\ onsetTimes[2] - onsetTimes[1] < 2 * minOnsetInterval

\* C9: with at least 10 history samples detectOnset() returns true exactly when the
\* energy exceeds the threshold and at least 200 ms have passed since the last
\* signaled onset (a frame exactly 200 ms after it is signaled).
C9_OnsetIffAboveAndElapsed ==
    (detOp = "detect" /\ Len(energyHistory) >= MinHistory) =>
        (detected <=> (above /\ (onsetsBefore = << >>
                                  \/ now - lastOnsetBefore >= minOnsetInterval)))

----------------------------------------------------------------------------
(* The tempo side of BeatDetector: frames are given by the outcome of their
   energy stage, the energy fields themselves are not followed *)
MaxHeardTime == 2000    \* the detector is followed up to this time (ms)
MaxLocks == 3           \* number of lockBPM()/unlockBPM() calls followed

BeatGapSet == {150, 400}             \* ms between two detectOnset() calls

\* detectOnset() dt ms after the previous call
HeardFrame ==
    \E dt \in BeatGapSet, isAbove \in BOOLEAN :
        /\ now + dt <= MaxHeardTime
        /\ now' = now + dt
        /\ DetectTail(now + dt, isAbove)
        /\ UNCHANGED << sensitivity, smoothing, energyHistory, lastEnergy, nResets >>
        /\ UNCHANGED << clockVars, callerVars, scenarioVars >>

\* lockBPM()
LockDetector ==
    /\ bpmLocked' = TRUE
    /\ lockedBPM' = estimatedBPM
    /\ bpmAtLock' = IF bpmLocked THEN bpmAtLock ELSE estimatedBPM
    /\ bpmShown' = GetEstimatedBPM
    /\ detOp' = "lock"
    /\ UNCHANGED << sensitivity, smoothing, energyHistory, lastEnergy, onsetTimes,
                    estimatedBPM, lastOnsetTime >>
    /\ UNCHANGED << detected, above, nFrames, onsetsBefore, lastOnsetBefore, nResets >>

LockBPM ==
    /\ nLocks < MaxLocks
    /\ nLocks' = nLocks + 1
    /\ LockDetector
    /\ UNCHANGED << now, clockVars, callerVars, appVars, steadyVars, restVars >>

\* unlockBPM()
UnlockBPM ==
    /\ nLocks < MaxLocks
    /\ nLocks' = nLocks + 1
    /\ bpmLocked' = FALSE
    /\ bpmShown' = GetEstimatedBPM
    /\ detOp' = "unlock"
    /\ UNCHANGED << sensitivity, smoothing, energyHistory, lastEnergy, onsetTimes,
                    estimatedBPM, lockedBPM, lastOnsetTime >>
    /\ UNCHANGED << detected, above, nFrames, onsetsBefore, lastOnsetBefore, nResets >>
    /\ UNCHANGED << now, bpmAtLock, clockVars, callerVars, appVars, steadyVars, restVars >>

TempoInit == ClockInit /\ DetIdle

TempoNext == HeardFrame \/ LockBPM \/ UnlockBPM \/ Reset

TempoSpec == TempoInit /\ [][TempoNext]_vars

\* C1: while the detector is locked, getEstimatedBPM() returns the value it had
\* right after the lockBPM() that locked it, whatever onsets are recorded, until
\* unlockBPM() or reset().
C1_LockAbsorbing ==
    bpmLocked => GetEstimatedBPM = bpmAtLock

C1_Witness ==
    /\ bpmLocked /\ detOp = "detect" /\ detected
    /\ bpmAtLock # InitialBPM
    /\ Len(onsetTimes) > Len(onsetsBefore)
    /\ EstimateBPM(onsetTimes, estimatedBPM) # estimatedBPM

\* the positions i whose interval onsetTimes[i+1] - onsetTimes[i] lies strictly
\* between 315 and 500 ms
Surviving ==
    {i \in 1..(Len(onsetTimes) - 1) :
        /\ onsetTimes[i + 1] - onsetTimes[i] > MinInterval
        /\ onsetTimes[i + 1] - onsetTimes[i] < MaxInterval}

\* the 10-ms bucket of the interval at position i
BucketAt(i) == RoundDiv(onsetTimes[i + 1] - onsetTimes[i], BucketSize) * BucketSize

\* how many surviving intervals fall in the bucket of position i
Frequency(i) == Cardinality({j \in Surviving : BucketAt(j) = BucketAt(i)})

\* the positions whose bucket is a most frequent one
Modal == {i \in Surviving : \A j \in Surviving : Frequency(j) <= Frequency(i)}

\* the latest detectOnset() recorded an onset on an unlocked detector
RecordedUnlocked ==
    detOp = "detect" /\ detected /\ ~bpmLocked

\* C11 as stated: with at least 4 onsets and at least one surviving interval the
\* new estimate is round(0.7 * old + 0.3 * round(60000 / b)), b a most frequent
\* bucket.
C11_EstimateFromOneInterval ==
    (RecordedUnlocked /\ Len(onsetTimes) >= MinOnsetCount /\ Surviving # {}) =>
        \E i \in Modal :
            estimatedBPM = Blend(bpmShown, RoundDiv(MsPerMinute, BucketAt(i)))

\* C11, amended: with at least 4 onsets and at least two surviving intervals the
\* new estimate is round(0.7 * old + 0.3 * round(60000 / b)), b the most frequent
\* bucket, the earliest one in the list when several are equally frequent.
C11_EstimateFromModalBucket ==
    (RecordedUnlocked /\ Len(onsetTimes) >= MinOnsetCount
        /\ Cardinality(Surviving) >= MinIntervalCount) =>
        \E i \in Modal :
            /\ \A j \in Modal : i <= j
            /\ estimatedBPM = Blend(bpmShown, RoundDiv(MsPerMinute, BucketAt(i)))

C11_Witness ==
    /\ RecordedUnlocked /\ Len(onsetTimes) >= MinOnsetCount
    /\ Cardinality(Surviving) >= MinIntervalCount
    /\ \E i \in Surviving : i \notin Modal
    /\ estimatedBPM # bpmShown

\* C12: after an onset is recorded with fewer than 4 onsets held, or with no
\* interval strictly between 315 and 500 ms, the estimate is what it was before.
C12_TooLittleKeepsEstimate ==
    (detOp = "detect" /\ detected
        /\ (Len(onsetTimes) < MinOnsetCount \/ Surviving = {})) =>
        /\ estimatedBPM = bpmShown
        /\ GetEstimatedBPM = bpmShown

C12_Witness ==
    /\ RecordedUnlocked /\ Len(onsetTimes) >= MinOnsetCount
    /\ Surviving = {}
    /\ estimatedBPM = bpmShown

\* C13: getEstimatedBPM() returns an integer in [120,190] after any onsets,
\* lockBPM(), unlockBPM() and reset().
C13_EstimateInRange ==
    GetEstimatedBPM \in MinBPM..MaxBPM

C13_Witness ==
    /\ nResets >= 1 /\ nLocks >= 2 /\ ~bpmLocked
    /\ GetEstimatedBPM # InitialBPM
    /\ estimatedBPM # lockedBPM

----------------------------------------------------------------------------
(* A steady beat: a new detector hears onsets warmGap ms apart, which leave it
   with some estimate, and then onsets exactly steadyGap ms apart *)
MaxWarm == 6            \* onsets heard before the steady beat
MaxSteady == 34         \* onsets of the steady beat followed

WarmGapSet == {330, 400, 480}
SteadyGapSet == {316, 350, 400, 460}

\* detectOnset() finds an onset gap ms after the previous call
OnsetAfter(gap) ==
    /\ now' = now + gap
    /\ DetectTail(now + gap, TRUE)
    /\ UNCHANGED << sensitivity, smoothing, energyHistory, lastEnergy, nResets >>
    /\ UNCHANGED << clockVars, callerVars, lockVars, appVars, warmGap, steadyGap,
                    restVars >>

WarmOnset ==
    /\ steadyFed = 0
    /\ warmFed < MaxWarm
    /\ warmFed' = warmFed + 1
    /\ OnsetAfter(warmGap)
    /\ UNCHANGED steadyFed

SteadyOnset ==
    /\ steadyFed < MaxSteady
    /\ steadyFed' = steadyFed + 1
    /\ OnsetAfter(steadyGap)
    /\ UNCHANGED warmFed

SteadyInit ==
    /\ ClockInit /\ DetNew /\ DetCallerInit /\ LockIdle /\ AppIdle
    /\ warmGap \in WarmGapSet
    /\ steadyGap \in SteadyGapSet
    /\ warmFed = 0
    /\ steadyFed = 0

SteadyNext == WarmOnset \/ SteadyOnset

SteadySpec == SteadyInit /\ [][SteadyNext]_vars

\* the onset list holds only the steady beat, and one more onset of it leaves the
\* estimate as it is: the estimate has come to rest
AtRest ==
    /\ steadyFed >= maxOnsets
    /\ EstimateBPM(PushOnset(onsetTimes, now + steadyGap), estimatedBPM) = estimatedBPM

\* C10: fed onsets exactly I ms apart, 315 < I < 500, the unlocked estimator comes
\* to rest at round(60000 / I).
C10_ConvergesToTempo ==
    AtRest => GetEstimatedBPM = RoundDiv(MsPerMinute, steadyGap)

----------------------------------------------------------------------------
(* The application: the store, the settings panel, the microphone and the
   animation loop of Canvas. Frames of the microphone are given by the outcome of
   their energy stage *)
MaxAppTime == 2000      \* the application is followed up to this time (ms)
MaxUiOps == 3           \* number of button presses followed

AppGapSet == {200, 400}              \* ms from one animation frame to the next
MicOutcomes == {"on", "blocked", "no-device"}

\* Canvas has mounted at time 0: new BeatClock(bpm) and start()
ClockStarted ==
    /\ now = 0
    /\ bpm = DefaultBpm
    /\ startTime = R(0)
    /\ lastBeatTime = R(0)
    /\ beatCount = 0
    /\ isRunning = TRUE
    /\ info = NeutralInfo(bpm)
    /\ prevInfo = NeutralInfo(bpm)
    /\ pollTime = 0
    /\ prevPollTime = 0
    /\ fastestBpm = bpm
    /\ startedSince = TRUE
    /\ stoppedSince = FALSE
    /\ ran = FALSE
    /\ chained = FALSE
    /\ contig = FALSE
    /\ steady = TRUE
    /\ op = "start"
    /\ bpmBefore = bpm
    /\ phaseBefore = R(0)
    /\ nSetBPM = 0
    /\ nStart = 1

\* AudioAnalyzer.update() at time t
AnalyzerUpdate(t) ==
    IF analyser /\ anMicStatus = "on"
      THEN \E isAbove \in BOOLEAN :
              /\ DetectTail(t, isAbove)
              /\ anIsOnset' = detected'
              /\ anLastOnsetTime' = IF detected' THEN t ELSE anLastOnsetTime
              /\ UNCHANGED nResets
      ELSE UNCHANGED << onsetTimes, estimatedBPM, bpmLocked, lockedBPM, lastOnsetTime,
                        detCallerVars, anIsOnset, anLastOnsetTime >>

LastTimeKeptInPause(paused, t, last) == IF paused THEN last ELSE t

\* lastTimeRef.current = time, in the pause branch and after it
NextLastTime(paused, t, last) == t

\* micMode && micStatus === 'on' && audioAnalyzer
UseAudio(mode, status) == mode /\ status = "on"

\* isCurrentlyOnset(): now - this.lastOnsetTime < 50
OnsetWindow == 50
IsCurrentlyOnset(t, lastOnset) == t - lastOnset < OnsetWindow

\* one run of Canvas.animate, dt ms after the previous one
AnimateAfter(dt) ==
    /\ now' = now + dt
    /\ appOp' = "frame"
    /\ frameTime' = now + dt
    /\ prevFrameTime' = frameTime
    /\ prevFramePaused' = (frameBranch = "paused")
    /\ lastTime' = NextLastTime(isPaused, now + dt, lastTime)
    /\ IF isPaused
         THEN /\ frameBranch' = "paused"
              /\ sceneUpdated' = FALSE
              /\ UNCHANGED << clockVars, callerVars, onsetTimes, estimatedBPM,
                              bpmLocked, lockedBPM, lastOnsetTime, detCallerVars,
                              anIsOnset, anLastOnsetTime, autoBPM >>
              /\ UNCHANGED << frameDelta, fwdIsOnset, anUpdateTime >>
         ELSE /\ frameDelta' = now + dt - lastTime
              /\ sceneUpdated' = TRUE
              /\ IF UseAudio(micMode, micStatus)
                   THEN /\ AnalyzerUpdate(now + dt)
                        /\ anUpdateTime' = now + dt
                        /\ autoBPM' = GetEstimatedBPM'
                        /\ fwdIsOnset' = IsCurrentlyOnset(now + dt, anLastOnsetTime')
                        /\ frameBranch' = "mic"
                        /\ UNCHANGED << clockVars, callerVars >>
                   ELSE /\ UpdateClock(now + dt)
                        /\ fwdIsOnset' = info'.isOnset
                        /\ frameBranch' = "clock"
                        /\ UNCHANGED << onsetTimes, estimatedBPM, bpmLocked, lockedBPM,
                                        lastOnsetTime, detCallerVars, anIsOnset,
                                        anLastOnsetTime, autoBPM, anUpdateTime >>
    /\ UNCHANGED << sensitivity, smoothing, energyHistory, lastEnergy >>
    /\ UNCHANGED << anMicStatus, analyser, micPending >>
    /\ UNCHANGED << isPaused, micMode, micStatus, isBpmLocked >>
    /\ UNCHANGED << autoAtLock, nUiOps, lockVars, steadyVars, restVars >>

AnimateFrame ==
    \E dt \in AppGapSet :
        /\ now + dt <= MaxAppTime
        /\ AnimateAfter(dt)

\* the Lock button: toggleBpmLock
ToggleBpmLock ==
    /\ nUiOps < MaxUiOps
    /\ nUiOps' = nUiOps + 1
    /\ appOp' = "lock"
    /\ UNCHANGED frameGhosts
    /\ isBpmLocked' = ~isBpmLocked
    /\ autoAtLock' = autoBPM
    /\ UNCHANGED << now, clockVars, callerVars, detVars, detCallerVars >>
    /\ UNCHANGED << analyzerVars, isPaused, micMode, micStatus, autoBPM >>
    /\ UNCHANGED << frameBranch, lockVars, steadyVars, restVars >>

\* togglePause
TogglePause ==
    /\ nUiOps < MaxUiOps
    /\ nUiOps' = nUiOps + 1
    /\ appOp' = "pause"
    /\ UNCHANGED frameGhosts
    /\ isPaused' = ~isPaused
    /\ UNCHANGED << now, clockVars, callerVars, detVars, detCallerVars >>
    /\ UNCHANGED << analyzerVars, micMode, micStatus, autoBPM, isBpmLocked >>
    /\ UNCHANGED << autoAtLock, frameBranch, lockVars, steadyVars, restVars >>

\* the microphone button while micMode is off: handleEnableMic up to the
\* permission request of startMic()
EnableMic ==
    /\ nUiOps < MaxUiOps
    /\ ~micMode
    /\ ~micPending
    /\ anMicStatus # "on"
    /\ nUiOps' = nUiOps + 1
    /\ appOp' = "enable"
    /\ UNCHANGED frameGhosts
    /\ anMicStatus' = "requesting"
    /\ micPending' = TRUE
    /\ UNCHANGED << now, clockVars, callerVars, detVars, detCallerVars >>
    /\ UNCHANGED << analyser, anIsOnset, anLastOnsetTime, storeVars >>
    /\ UNCHANGED << autoAtLock, frameBranch, lockVars, steadyVars, restVars >>

RestartWithDefault(anSens) == DefaultSensitivity

\* this.beatDetector.setSensitivity(this.sensitivity) on the new detector
RestartSensitivity(anSens) == Clamp(anSens, 0, Hundred)

\* this.beatDetector.setSmoothing(this.smoothing) on the new detector
RestartSmoothing(anSmooth) == Clamp(anSmooth, 0, MaxSmoothing)

\* startMic() replaces the detector: new BeatDetector(), setSensitivity() and
\* setSmoothing() with the analyzer's settings
ReplaceDetector ==
    /\ sensitivity' = RestartSensitivity(anSensitivity)
    /\ smoothing' = RestartSmoothing(anSmoothing)
    /\ energyHistory' = << >>
    /\ lastEnergy' = 0
    /\ onsetTimes' = << >>
    /\ estimatedBPM' = InitialBPM
    /\ bpmLocked' = FALSE
    /\ lockedBPM' = InitialBPM
    /\ lastOnsetTime' = 0
    /\ detected' = FALSE
    /\ above' = FALSE
    /\ nFrames' = 0
    /\ onsetsBefore' = << >>
    /\ lastOnsetBefore' = 0
    /\ bpmShown' = GetEstimatedBPM
    /\ detOp' = "new"
    /\ UNCHANGED nResets

ModeAlwaysOn(status) == TRUE

\* handleEnableMic: setMicMode(true) if status === 'on', else setMicMode(false)
ModeAfterStart(status) == status = "on"

\* the permission request settles: the rest of startMic() and handleEnableMic
MicSettle ==
    \E status \in MicOutcomes :
        /\ micPending
        /\ micPending' = FALSE
        /\ appOp' = "settle"
        /\ anMicStatus' = status
        /\ micStatus' = status
        /\ micMode' = ModeAfterStart(status)
        /\ UNCHANGED frameGhosts
        /\ IF status = "on"
             THEN /\ analyser' = TRUE
                  /\ ReplaceDetector
                  /\ autoAtLock' = autoBPM
             ELSE UNCHANGED << analyser, detVars, detCallerVars, autoAtLock >>
        /\ UNCHANGED << now, clockVars, callerVars, anIsOnset, anLastOnsetTime >>
        /\ UNCHANGED << isPaused, autoBPM, isBpmLocked >>
        /\ UNCHANGED << frameBranch, nUiOps, lockVars, steadyVars, restVars >>

\* the microphone button while micMode is on: handleDisableMic with stopMic()
DisableMic ==
    /\ nUiOps < MaxUiOps
    /\ micMode
    /\ nUiOps' = nUiOps + 1
    /\ appOp' = "disable"
    /\ UNCHANGED frameGhosts
    /\ analyser' = FALSE
    /\ anMicStatus' = "off"
    /\ ResetDetector
    /\ micStatus' = "off"
    /\ micMode' = FALSE
    /\ UNCHANGED << now, clockVars, callerVars, micPending, anIsOnset, anLastOnsetTime >>
    /\ UNCHANGED << isPaused, autoBPM, isBpmLocked >>
    /\ UNCHANGED << autoAtLock, frameBranch, lockVars, steadyVars, restVars >>

AppInit == ClockStarted /\ DetNew /\ DetCallerInit /\ LockIdle /\ AppIdle /\ SteadyIdle

AppNext ==
    \/ AnimateFrame \/ ToggleBpmLock \/ TogglePause
    \/ EnableMic \/ MicSettle \/ DisableMic

AppSpec == AppInit /\ [][AppNext]_vars

\* C2: in microphone mode, while the Lock button is on, the auto BPM in the store
\* is the one it showed when that began, whatever onsets are detected.
C2_LockButtonFreezes ==
    (micMode /\ isBpmLocked) => autoBPM = autoAtLock

----------------------------------------------------------------------------
(* The smoothing step of estimateBPM() on its own: an estimate and a candidate
   in [120,190], the step applied again and again with the same candidate *)
MaxSmoothRuns == 6      \* number of smoothing steps followed

BlendTermwise(est, cand) ==
    (KeepTenths * est) \div 10 + RoundDiv(BlendTenths * cand, 10)

\* this.estimatedBPM = Math.round(this.estimatedBPM * 0.7 + bpm * 0.3)
SmoothStep(est, cand) == Blend(est, cand)

SmoothAgain ==
    /\ smoothRuns < MaxSmoothRuns
    /\ smoothRuns' = smoothRuns + 1
    /\ smoothEst' = SmoothStep(smoothEst, smoothCand)
    /\ UNCHANGED << smoothCand, smoothStart >>
    /\ UNCHANGED << now, clockVars, callerVars, detVars, detCallerVars >>
    /\ UNCHANGED << lockVars, appVars, steadyVars, tapVars, longVars, settingVars, sceneVars, streamVars, featureVars >>

SmoothInit ==
    /\ ClockInit /\ DetNew /\ DetCallerInit /\ LockIdle
    /\ AnalyzerNew /\ StoreInit /\ UserInit /\ SteadyIdle /\ TapNew /\ LongIdle
    /\ SettingsNew /\ OtherIdle
    /\ smoothStart \in MinBPM..MaxBPM
    /\ smoothCand \in MinBPM..MaxBPM
    /\ smoothEst = smoothStart
    /\ smoothRuns = 0

SmoothNext == SmoothAgain

SmoothSpec == SmoothInit /\ [][SmoothNext]_vars

\* C14: when the candidate equals the estimate, any number of smoothing steps
\* leaves the estimate where it was, for every estimate in [120,190].
C14_SmoothingFixedPoint ==
    (smoothCand = smoothStart) => smoothEst = smoothStart

C14_Witness ==
    /\ smoothCand = smoothStart /\ smoothRuns = MaxSmoothRuns
    /\ smoothStart = MaxBPM - 1

----------------------------------------------------------------------------
(* TapTempo and the Tap Tempo button: tap() on the retained taps, then the
   store's setBpm when tap() returns a number *)
maxTaps == 8
maxInterval == 2000
MinTaps == 2
MinTapBPM == 60
MaxTapBPM == 200
StoreMinBpm == 120
StoreMaxBpm == 190

MaxTapCalls == 9        \* number of taps followed
TapGapSet == {250, 500, 600, 2000, 2001}

TapExpiredAtLimit(gap) == gap >= maxInterval

\* now - this.taps[this.taps.length - 1] > this.maxInterval
TapExpired(gap) == gap > maxInterval

\* if the last tap is too old, this.taps = []
KeptTaps(ts, t) ==
    IF Len(ts) > 0 /\ TapExpired(t - ts[Len(ts)]) THEN << >> ELSE ts

PushTapKeepAll(ts, t) == Append(ts, t)

\* this.taps.push(now); if (this.taps.length > this.maxTaps) this.taps.shift()
PushTap(ts, t) ==
    LET g == Append(ts, t)
    IN  IF Len(g) > maxTaps THEN Tail(g) ELSE g

\* totalInterval += this.taps[i] - this.taps[i - 1], for i from 1
RECURSIVE TotalInterval(_)
TotalInterval(ts) ==
    IF Len(ts) < 2 THEN 0 ELSE (ts[2] - ts[1]) + TotalInterval(Tail(ts))

\* the pairs (number of intervals, total) at which 60000 / (total / n), taken
\* in doubles, falls just below the half it equals exactly: 1600 / 3 rounds up
\* to 533.3333333333334 and 60000 over it is 112.49999999999999
TapTiesDown == { << 3, 1600 >>, << 6, 3200 >> }

\* Math.round(60000 / (totalInterval / (this.taps.length - 1))); a total of 0
\* gives Infinity, which the clamp turns into its upper end
RoundedTapBpm(n, total) ==
    IF total = 0 THEN MaxTapBPM + 1
    ELSE IF << n, total >> \in TapTiesDown THEN (MsPerMinute * n) \div total
    ELSE RoundDiv(MsPerMinute * n, total)

\* return Math.max(60, Math.min(200, Math.round(bpm)))
TapBpm(ts) ==
    Clamp(RoundedTapBpm(Len(ts) - 1, TotalInterval(ts)), MinTapBPM, MaxTapBPM)

\* the value tap() returns once the taps are ts
TapValue(ts) == IF Len(ts) < MinTaps THEN NoBpm ELSE TapBpm(ts)

StoreKeepsAny(v) == v

\* setBpm: (bpm) => set({ bpm: Math.max(120, Math.min(190, bpm)) })
StoreBpmOf(v) == Clamp(v, StoreMinBpm, StoreMaxBpm)

\* handleTapTempo: const newBpm = tapTempo.tap(); if (newBpm) setBpm(newBpm)
TapAt(t) ==
    LET ts == PushTap(KeptTaps(taps, t), t)
        v == TapValue(ts)
    IN  /\ taps' = ts
        /\ tapResult' = v
        /\ storeBpm' = IF v # NoBpm THEN StoreBpmOf(v) ELSE storeBpm
        /\ tapsBefore' = taps
        /\ storeBpmBefore' = storeBpm
        /\ tapRun' = IF tapRun # << >> /\ t - tapRun[Len(tapRun)] > maxInterval
                     THEN << t >> ELSE Append(tapRun, t)
        /\ nTaps' = nTaps + 1

\* the Tap Tempo button pressed dt ms after the previous tap
HandleTapTempo ==
    /\ nTaps < MaxTapCalls
    /\ \E dt \in (IF nTaps = 0 THEN {0} ELSE TapGapSet) :
         /\ now' = now + dt
         /\ TapAt(now + dt)
    /\ UNCHANGED << clockVars, callerVars, detVars, detCallerVars >>
    /\ UNCHANGED << lockVars, appVars, steadyVars, smoothVars, longVars, settingVars, sceneVars, streamVars, featureVars >>

TapInit ==
    /\ ClockInit /\ DetNew /\ DetCallerInit /\ LockIdle
    /\ AnalyzerNew /\ StoreInit /\ UserInit /\ SteadyIdle /\ RestIdle

TapNext == HandleTapTempo

TapSpec == TapInit /\ [][TapNext]_vars

\* the gap between the latest tap and the one before it
LastTapGap == now - tapsBefore[Len(tapsBefore)]

\* the last k entries of a sequence
LastOf(q, k) == SubSeq(q, Len(q) - k + 1, Len(q))

\* C15: a tap more than 2000 ms after the previous one discards the earlier
\* taps and returns null, the tap after it computes from exactly those two,
\* and a gap of exactly 2000 ms discards nothing.
C15_LongGapRestarts ==
    (nTaps >= 1 /\ tapsBefore # << >>) =>
        /\ (LastTapGap > maxInterval) => (taps = << now >> /\ tapResult = NoBpm)
        /\ (LastTapGap <= maxInterval) =>
              /\ taps = LastOf(Append(tapsBefore, now), Min(maxTaps, Len(tapsBefore) + 1))
              /\ tapResult # NoBpm
        /\ (LastTapGap <= maxInterval /\ Len(tapsBefore) = 1) =>
              /\ taps = << tapsBefore[1], now >>
              /\ tapResult = Clamp(RoundDiv(MsPerMinute, LastTapGap), MinTapBPM, MaxTapBPM)

C15_Witness ==
    /\ nTaps = 4 /\ Len(taps) = 2 /\ taps[2] - taps[1] = 500
    /\ taps[1] > maxInterval /\ tapResult = 120

C15_WitnessAtLimit ==
    /\ nTaps >= 3 /\ LastTapGap = maxInterval /\ Len(taps) = nTaps

\* 60000 / ((last - first) / n) rounded as the code rounds it
RoundedMean(first, last, n) == RoundedTapBpm(n, last - first)

\* C16: with n retained taps (the latest 8 at most of the current run), n >= 2,
\* tap() returns round(60000 / ((last - first) / (n - 1))) clamped to [60,200];
\* with fewer it returns null; the result is null or an integer in [60,200].
C16_TapBpmFromMean ==
    (nTaps >= 1) =>
        /\ taps = LastOf(tapRun, Min(maxTaps, Len(tapRun)))
        /\ Len(taps) < MinTaps => tapResult = NoBpm
        /\ Len(taps) >= MinTaps =>
              tapResult = Clamp(RoundedMean(taps[1], taps[Len(taps)], Len(taps) - 1),
                                MinTapBPM, MaxTapBPM)
        /\ tapResult = NoBpm \/ tapResult \in MinTapBPM..MaxTapBPM

C16_Witness ==
    /\ Len(tapRun) > maxTaps /\ Len(taps) = maxTaps
    /\ tapResult > MinTapBPM /\ tapResult < MaxTapBPM
    /\ \E i \in 2..Len(taps) : taps[i] - taps[i-1] # taps[2] - taps[1]

\* the tempo of the retained taps lies below 60 or above 200
TapTempoOutOfRange ==
    /\ Len(taps) >= MinTaps
    /\ \/ MsPerMinute * (Len(taps) - 1) < MinTapBPM * TotalInterval(taps)
       \/ MsPerMinute * (Len(taps) - 1) > MaxTapBPM * TotalInterval(taps)

\* C17 as stated: an out-of-range tempo is rejected, tap() gives no BPM and the
\* store keeps the BPM it had.
C17_OutOfRangeRejected ==
    (nTaps >= 1 /\ TapTempoOutOfRange) =>
        (tapResult = NoBpm /\ storeBpm = storeBpmBefore)

\* C17: an out-of-range tempo is clamped, not rejected: tap() returns 60 or
\* 200, and the Tap Tempo button stores it as 120 or 190.
C17_OutOfRangeClamped ==
    (nTaps >= 1 /\ TapTempoOutOfRange) =>
        /\ tapResult \in {MinTapBPM, MaxTapBPM}
        /\ tapResult = MinTapBPM => storeBpm = StoreMinBpm
        /\ tapResult = MaxTapBPM => storeBpm = StoreMaxBpm

C17_Witness ==
    /\ nTaps >= 3 /\ TapTempoOutOfRange /\ tapResult = MinTapBPM
    /\ storeBpmBefore = StoreMaxBpm /\ storeBpm = StoreMinBpm

----------------------------------------------------------------------------
(* A long run of frames: one frame in longPeriod at full scale, the others
   silent, longGap ms apart, long enough for both lists to overflow *)
MaxLongFrames == 80     \* frames followed after construction or reset()
MaxLongResets == 1      \* number of reset() calls followed in the long run

LongPeriodSet == {2, 3}
LongGapSet == {100, 150}

\* detectOnset() on the next frame of the run
LongFrame ==
    /\ nFrames < MaxLongFrames
    /\ \E raw \in {IF nFrames % longPeriod = 0 THEN EnergyOne ELSE 0} :
         DetectAt(now + longGap, raw)
    /\ now' = now + longGap
    /\ energyLog' = Append(energyLog, lastEnergy')
    /\ onsetLog' = IF detected' THEN Append(onsetLog, now') ELSE onsetLog
    /\ UNCHANGED << sensitivity, smoothing, nResets, longPeriod, longGap >>
    /\ UNCHANGED << clockVars, callerVars, lockVars, appVars, steadyVars >>
    /\ UNCHANGED << smoothVars, tapVars, settingVars, sceneVars, streamVars, featureVars >>

\* reset() during the run
LongReset ==
    /\ nResets < MaxLongResets
    /\ ResetDetector
    /\ energyLog' = << >>
    /\ onsetLog' = << >>
    /\ UNCHANGED << now, longPeriod, longGap >>
    /\ UNCHANGED << clockVars, callerVars, lockVars, appVars, steadyVars >>
    /\ UNCHANGED << smoothVars, tapVars, settingVars, sceneVars, streamVars, featureVars >>

LongInit ==
    /\ ClockInit /\ DetConfigured /\ DetCallerInit /\ LockIdle /\ AnalyzerNew /\ StoreInit /\ UserInit
    /\ SteadyIdle /\ SmoothIdle /\ TapNew /\ SettingsNew /\ OtherIdle
    /\ longPeriod \in LongPeriodSet
    /\ longGap \in LongGapSet
    /\ energyLog = << >>
    /\ onsetLog = << >>

LongNext == LongFrame \/ LongReset

LongSpec == LongInit /\ [][LongNext]_vars

\* C19: the energy history holds at most 43 values and the onset list at most
\* 32, each being exactly the most recent entries in the order they were
\* added, and the onset times are strictly increasing.
C19_BoundedRecentHistory ==
    /\ Len(energyHistory) <= historySize
    /\ Len(onsetTimes) <= maxOnsets
    /\ energyHistory = LastOf(energyLog, Min(historySize, Len(energyLog)))
    /\ onsetTimes = LastOf(onsetLog, Min(maxOnsets, Len(onsetLog)))
    /\ \A i \in 1..(Len(onsetTimes) - 1) : onsetTimes[i] < onsetTimes[i + 1]

C19_Witness ==
    /\ Len(energyLog) > historySize /\ Len(onsetLog) > maxOnsets
    /\ Len(energyHistory) = historySize /\ Len(onsetTimes) = maxOnsets
    /\ energyHistory[1] # energyHistory[2]
    /\ onsetTimes[1] # onsetLog[1]

----------------------------------------------------------------------------
(* The life of the analyzer's detector: the microphone started, frames heard,
   the settings changed, the tempo locked, the microphone stopped and started
   again.  One frame in LifePattern.period is at full scale, the others silent. *)
MaxLifeFrames == 19     \* frames followed after construction, reset() or restart
MaxLifeTime == 4350     \* frames are followed up to this time (ms)
MaxLifeStarts == 2      \* number of startMic() calls followed
MaxLifeStops == 1       \* number of stopMic() calls followed
MaxLifeLocks == 1       \* number of lockBPM() calls followed
MaxSettings == 1        \* number of times the settings are applied

\* the frames heard: one in three at full scale, 150 ms apart
LifePattern == [period |-> 3, gap |-> 150]
LifeSettingSet == { << 100, 50 >>, << 120, 100 >> }

\* AudioAnalyzer.update() while the microphone is on
LifeFrame ==
    /\ analyser /\ anMicStatus = "on"
    /\ nFrames < MaxLifeFrames
    /\ now + LifePattern.gap <= MaxLifeTime
    /\ now' = now + LifePattern.gap
    /\ \E raw \in {IF nFrames % LifePattern.period = 0 THEN EnergyOne ELSE 0} :
         DetectAt(now + LifePattern.gap, raw)
    /\ anIsOnset' = detected'
    /\ anLastOnsetTime' = IF detected' THEN now' ELSE anLastOnsetTime
    /\ UNCHANGED << sensitivity, smoothing, nResets >>
    /\ UNCHANGED << anMicStatus, analyser, micPending, storeVars, userVars >>
    /\ UNCHANGED << clockVars, callerVars, lockVars, steadyVars >>
    /\ UNCHANGED << smoothVars, tapVars, longVars, settingVars, sceneVars, streamVars, featureVars >>

\* the settings effect of Canvas: analyzer.setSensitivity(s) and setSmoothing(a)
ApplySettings ==
    /\ nSettings < MaxSettings
    /\ nSettings' = nSettings + 1
    /\ \E v \in LifeSettingSet :
         /\ anSensitivity' = Clamp(v[1], 0, Hundred)
         /\ sensitivity' = Clamp(v[1], 0, Hundred)
         /\ anSmoothing' = Clamp(v[2], 0, MaxSmoothing)
         /\ smoothing' = Clamp(v[2], 0, MaxSmoothing)
    /\ UNCHANGED << energyHistory, lastEnergy, onsetTimes, estimatedBPM, bpmLocked,
                    lockedBPM, lastOnsetTime, detCallerVars, nMicStarts >>
    /\ UNCHANGED << now, clockVars, callerVars, lockVars, appVars, steadyVars >>
    /\ UNCHANGED << smoothVars, tapVars, longVars, sceneVars, streamVars, featureVars >>

\* AudioAnalyzer.lockBPM()
LifeLock ==
    /\ nLocks < MaxLifeLocks
    /\ nLocks' = nLocks + 1
    /\ LockDetector
    /\ UNCHANGED << now, clockVars, callerVars, appVars, steadyVars, restVars >>

\* startMic() up to the permission request
RequestMic ==
    /\ nMicStarts < MaxLifeStarts
    /\ anMicStatus # "on"
    /\ ~micPending
    /\ nMicStarts' = nMicStarts + 1
    /\ anMicStatus' = "requesting"
    /\ micPending' = TRUE
    /\ UNCHANGED << now, clockVars, callerVars, detVars, detCallerVars >>
    /\ UNCHANGED << analyser, anIsOnset, anLastOnsetTime, storeVars, userVars >>
    /\ UNCHANGED << lockVars, steadyVars, smoothVars, tapVars, longVars >>
    /\ UNCHANGED << anSensitivity, anSmoothing, nSettings, sceneVars, streamVars, featureVars >>

\* the rest of startMic() once the permission request settles
StartMicSettle ==
    \E status \in MicOutcomes :
        /\ micPending
        /\ micPending' = FALSE
        /\ anMicStatus' = status
        /\ IF status = "on"
             THEN analyser' = TRUE /\ ReplaceDetector
             ELSE UNCHANGED << analyser, detVars, detCallerVars >>
        /\ UNCHANGED << now, clockVars, callerVars, anIsOnset, anLastOnsetTime >>
        /\ UNCHANGED << storeVars, userVars, lockVars, steadyVars, restVars >>

\* stopMic()
StopMic ==
    /\ nResets < MaxLifeStops
    /\ analyser' = FALSE
    /\ anMicStatus' = "off"
    /\ ResetDetector
    /\ smoothedFeatures' = DefaultFeatures
    /\ updatedFeatures' = DefaultFeatures
    /\ featureOp' = "stop"
    /\ UNCHANGED << masterIntensity, fwdFeatures, nFeatureFrames >>
    /\ UNCHANGED << now, clockVars, callerVars, micPending, anIsOnset, anLastOnsetTime >>
    /\ UNCHANGED << storeVars, userVars, lockVars, steadyVars >>
    /\ UNCHANGED << smoothVars, tapVars, longVars, settingVars, sceneVars, streamVars >>

LifeInit == ClockInit /\ DetIdle

LifeNext ==
    \/ LifeFrame \/ ApplySettings \/ LifeLock
    \/ RequestMic \/ StartMicSettle \/ StopMic

LifeSpec == LifeInit /\ [][LifeNext]_vars

\* C20: after reset() and after a restart of the microphone the detector is as
\* new: the estimate 140, not locked, no energy history and no onsets, so that
\* none of the next frames is an onset before the history holds 10 samples; the
\* sensitivity and smoothing are the analyzer's.
C20_ResetRestoresInitial ==
    /\ (detOp \in {"reset", "new"}) =>
          /\ GetEstimatedBPM = InitialBPM /\ estimatedBPM = InitialBPM
          /\ ~bpmLocked
          /\ energyHistory = << >> /\ onsetTimes = << >>
          /\ lastEnergy = 0 /\ lastOnsetTime = 0
    /\ (nResets >= 1 /\ detOp = "detect" /\ nFrames < MinHistory) =>
          (~detected /\ onsetTimes = << >> /\ GetEstimatedBPM = InitialBPM)
    /\ sensitivity = anSensitivity /\ smoothing = anSmoothing

C20_Witness ==
    /\ detOp = "reset" /\ bpmShown # InitialBPM /\ lockedBPM # InitialBPM
    /\ Len(onsetsBefore) >= MinOnsetCount
    /\ sensitivity # DefaultSensitivity

C20_WitnessRestart ==
    /\ nResets = 1 /\ nMicStarts = MaxLifeStarts /\ lockedBPM = InitialBPM
    /\ detOp = "detect" /\ nFrames = MinHistory - 1
    /\ sensitivity # DefaultSensitivity /\ smoothing # DefaultSmoothing

----------------------------------------------------------------------------
(* Claims about the animation loop and the microphone button *)

\* C21: a frame that is not paused uses exactly one beat source: the analyzer
\* when micMode is on and micStatus is 'on', the beat clock otherwise; and after
\* a startMic() that ends in 'blocked' or 'no-device' micMode is off.
C21_OneBeatSource ==
    /\ (appOp = "frame" /\ ~isPaused) =>
          IF micMode /\ micStatus = "on"
            THEN anUpdateTime = now /\ pollTime # now /\ frameBranch = "mic"
            ELSE /\ pollTime = now /\ op = "update" /\ anUpdateTime # now
                 /\ frameBranch = "clock"
    /\ (appOp = "settle" /\ micStatus \in {"blocked", "no-device"}) => ~micMode

C21_Witness ==
    /\ appOp = "frame" /\ ~isPaused /\ micStatus = "blocked"
    /\ pollTime = now /\ anUpdateTime # now /\ info.isOnset

C21_WitnessMic ==
    /\ appOp = "frame" /\ ~isPaused /\ micMode /\ anUpdateTime = now
    /\ detected /\ pollTime = 0

\* C22: while a permission request is pending the store's micStatus is
\* 'requesting'; once it has settled the store's status is the analyzer's, one
\* of 'on', 'blocked', 'no-device'.
C22_RequestingShown ==
    /\ micPending => micStatus = "requesting"
    /\ (appOp = "settle") => (micStatus = anMicStatus /\ micStatus \in MicOutcomes)

----------------------------------------------------------------------------
(* The manual BPM: the slider, the preset buttons and the Tap Tempo button
   write the store, and the BPM effect of Canvas hands the store's value to
   the beat clock *)
MaxBpmTime == 4000      \* the BPM controls are followed up to this time (ms)
MaxBpmInputs == 3       \* number of BPM inputs followed

BpmGapSet == {250, 600, 2000}        \* ms from one input to the next
SliderSet == {120, 133, 190}         \* positions of the slider, min 120, max 190
PresetSet == {140, 160, 174, 180}    \* the preset buttons

\* setBPM(b) on the clock at time t
SetClockBPM(t, b) ==
    LET currentPhase == IF isRunning THEN PhaseAt(t, startTime, bpm) ELSE R(0)
    IN  /\ nSetBPM' = nSetBPM + 1
        /\ bpmBefore' = bpm
        /\ phaseBefore' = currentPhase
        /\ IF b # bpm
             THEN /\ bpm' = b
                  /\ startTime' = SetBPMStart(t, currentPhase, b, bpm)
             ELSE UNCHANGED << bpm, startTime >>
        /\ fastestBpm' = Max(fastestBpm, b)
        /\ steady' = (steady /\ b = bpm)
        /\ op' = "setBPM"
        /\ UNCHANGED << lastBeatTime, beatCount, isRunning, info, prevInfo,
                        pollTime, prevPollTime, startedSince, stoppedSince, ran,
                        chained, contig, nStart >>

EffectKeepsOld(new, old) == old

\* the value the BPM effect gives to beatClock.setBPM: the store's bpm
EffectBpm(new, old) == new

\* useEffect(() => beatClockRef.current.setBPM(bpm), [bpm]), run at time t when
\* the store's bpm has changed
BpmEffect(t) ==
    IF storeBpm' # storeBpm
      THEN SetClockBPM(t, EffectBpm(storeBpm', storeBpm))
      ELSE UNCHANGED << clockVars, callerVars >>

\* a BPM input dt ms after the previous one: the body of the handler, then the
\* effect
BpmInput(dt, name) ==
    /\ nUiOps < MaxBpmInputs
    /\ now + dt <= MaxBpmTime
    /\ nUiOps' = nUiOps + 1
    /\ now' = now + dt
    /\ appOp' = name
    /\ BpmEffect(now + dt)
    /\ UNCHANGED << detVars, detCallerVars, lockVars, analyzerVars, storeVars >>
    /\ UNCHANGED << autoAtLock, frameBranch, frameGhosts, steadyVars >>
    /\ UNCHANGED << smoothVars, longVars, settingVars, sceneVars, streamVars, featureVars >>

\* the BPM slider: setBpm(parseInt(e.target.value))
MoveSlider ==
    \E dt \in BpmGapSet, v \in SliderSet :
        /\ storeBpm' = StoreBpmOf(v)
        /\ UNCHANGED << taps, tapResult, tapsBefore, tapRun, storeBpmBefore, nTaps >>
        /\ BpmInput(dt, "slider")

\* a preset button: setBpm(140), setBpm(160), setBpm(174), setBpm(180)
PressPreset ==
    \E dt \in BpmGapSet, v \in PresetSet :
        /\ storeBpm' = StoreBpmOf(v)
        /\ UNCHANGED << taps, tapResult, tapsBefore, tapRun, storeBpmBefore, nTaps >>
        /\ BpmInput(dt, "preset")

\* the Tap Tempo button
PressTap ==
    \E dt \in BpmGapSet :
        /\ TapAt(now + dt)
        /\ BpmInput(dt, "tap")

BpmInit ==
    /\ ClockStarted /\ DetNew /\ DetCallerInit /\ LockIdle
    /\ AppIdle /\ SteadyIdle

BpmNext == MoveSlider \/ PressPreset \/ PressTap

BpmSpec == BpmInit /\ [][BpmNext]_vars

\* C23: after any BPM inputs the store's bpm is in [120,190] and is the BPM of
\* the beat clock; a tap-tempo result below 120 or above 190 is applied as 120
\* or 190, and a tap without a result changes nothing.
C23_ManualBpmInRange ==
    /\ storeBpm \in StoreMinBpm..StoreMaxBpm
    /\ bpm = storeBpm
    /\ (appOp = "tap" /\ tapResult # NoBpm) =>
          /\ tapResult \in MinTapBPM..MaxTapBPM
          /\ storeBpm = IF tapResult < StoreMinBpm THEN StoreMinBpm
                        ELSE IF tapResult > StoreMaxBpm THEN StoreMaxBpm
                        ELSE tapResult
    /\ (appOp = "tap" /\ tapResult = NoBpm) => storeBpm = storeBpmBefore

C23_Witness ==
    /\ appOp = "tap" /\ tapResult = MaxTapBPM /\ storeBpm = StoreMaxBpm
    /\ storeBpmBefore = StoreMinBpm /\ bpm = StoreMaxBpm /\ bpmBefore = StoreMinBpm

----------------------------------------------------------------------------
(* Scene selection: the N and P keys and the number keys write the store, and
   the scene effect of Canvas hands the index to the SceneManager *)
MaxSceneOps == 4        \* number of scene commands followed
MaxKey == 9
StoreSceneCount == 6    \* the store's sceneCount before Canvas has mounted

\* the store's sceneCount: one scene, the initial 6, the 15 of the SceneManager
SceneCountSet == {1, StoreSceneCount, ManagerScenes}

\* nextScene: (currentSceneIndex + 1) % sceneCount
NextIndex(i, n) == (i + 1) % n

\* prevScene: (currentSceneIndex - 1 + sceneCount) % sceneCount
PrevIndex(i, n) == (i - 1 + n) % n

KeyAlwaysExists(k, n) == TRUE

\* const sceneIndex = parseInt(event.key) - 1; if (sceneIndex < sceneCount)
KeyExists(k, n) == k - 1 < n

\* SceneManager.setCurrentSceneIndex(index), called by the scene effect
ManagerIndexAfter(index, old) ==
    IF index >= 0 /\ index < ManagerScenes THEN index ELSE old

\* a scene command that leaves the store's index at i
SceneCommand(name, i) ==
    /\ nSceneOps < MaxSceneOps
    /\ nSceneOps' = nSceneOps + 1
    /\ currentSceneIndex' = i
    /\ managerIndex' = ManagerIndexAfter(i, managerIndex)
    /\ sceneOp' = name
    /\ prevSceneOp' = sceneOp
    /\ sceneBefore' = currentSceneIndex
    /\ sceneBefore2' = sceneBefore
    /\ UNCHANGED << sceneCount, now, clockVars, callerVars, detVars, detCallerVars >>
    /\ UNCHANGED << lockVars, appVars, steadyVars, smoothVars, tapVars, longVars >>
    /\ UNCHANGED << settingVars, streamVars, featureVars >>

\* the N key
NextScene ==
    /\ SceneCommand("next", NextIndex(currentSceneIndex, sceneCount))
    /\ UNCHANGED keyPressed

\* the P key
PrevScene ==
    /\ SceneCommand("prev", PrevIndex(currentSceneIndex, sceneCount))
    /\ UNCHANGED keyPressed

\* a number key, 1 to 9
NumberKey ==
    \E k \in 1..MaxKey :
        /\ SceneCommand("key", IF KeyExists(k, sceneCount) THEN k - 1
                               ELSE currentSceneIndex)
        /\ keyPressed' = k

SceneInit ==
    /\ ClockInit /\ DetNew /\ DetCallerInit /\ LockIdle
    /\ AnalyzerNew /\ StoreInit /\ UserInit /\ SteadyIdle
    /\ SmoothIdle /\ TapNew /\ LongIdle /\ SettingsNew /\ StreamsNew /\ FeaturesNew
    /\ \E count \in SceneCountSet : ScenesNew(count)

SceneNext == NextScene \/ PrevScene \/ NumberKey

SceneSpec == SceneInit /\ [][SceneNext]_vars

\* C24: after any next, previous and number-key commands the scene index is in
\* [0, sceneCount); next wraps from the last scene to 0 and previous from 0 to
\* the last; next then previous restores the index; a number key without a
\* scene leaves the index unchanged.
C24_SceneIndexInRange ==
    /\ currentSceneIndex \in 0..(sceneCount - 1)
    /\ (sceneOp = "next") =>
          currentSceneIndex = IF sceneBefore = sceneCount - 1 THEN 0 ELSE sceneBefore + 1
    /\ (sceneOp = "prev") =>
          currentSceneIndex = IF sceneBefore = 0 THEN sceneCount - 1 ELSE sceneBefore - 1
    /\ (sceneOp = "prev" /\ prevSceneOp = "next") => currentSceneIndex = sceneBefore2
    /\ (sceneOp = "key") =>
          currentSceneIndex = IF keyPressed <= sceneCount THEN keyPressed - 1
                              ELSE sceneBefore
    /\ managerIndex = currentSceneIndex

C24_Witness ==
    /\ sceneCount = StoreSceneCount
    /\ sceneOp = "prev" /\ prevSceneOp = "next"
    /\ sceneBefore = 0 /\ sceneBefore2 = StoreSceneCount - 1
    /\ currentSceneIndex = StoreSceneCount - 1

C24_WitnessKey ==
    /\ sceneOp = "key" /\ keyPressed > sceneCount /\ sceneCount > 1
    /\ currentSceneIndex = sceneBefore /\ sceneBefore > 0

----------------------------------------------------------------------------
(* Claims about pausing and about the onset flag of the microphone *)

\* C25: a frame that finds isPaused updates neither the beat clock nor the
\* analyzer and neither updates nor renders the scene; a frame that does not
\* gives the scene the time since the previous frame, paused or not, as
\* deltaTime.
C25_PausedFramesIdle ==
    /\ (appOp = "frame" /\ isPaused) =>
          /\ frameBranch = "paused" /\ ~sceneUpdated
          /\ pollTime # now /\ anUpdateTime # now
    /\ (appOp = "frame" /\ ~isPaused) =>
          (sceneUpdated /\ frameDelta = frameTime - prevFrameTime)

C25_Witness ==
    /\ appOp = "frame" /\ ~isPaused /\ prevFramePaused
    /\ pollTime = now /\ prevPollTime > 0 /\ prevPollTime < prevFrameTime
    /\ frameDelta < now - prevPollTime

----------------------------------------------------------------------------
(* Claims about the beat clock across setBPM() and across gaps between polls *)

\* C26: after a setBPM() that changed the BPM, with update() polled less than
\* one beat apart, the first poll at or after a beat boundary of the new tempo
\* (the boundaries lie one new beat apart, the first less than one beat after
\* the call) reports an onset.
C26_OnsetAfterSetBPM ==
    (op = "update" /\ contig /\ nSetBPM >= 1 /\ bpm # bpmBefore) =>
        ((\E k \in 1..((MaxTime * bpm) \div MsPerMinute + 1) :
              LET boundary == RAdd(startTime, RMul(R(k), BeatDuration(bpm)))
              IN  /\ RLt(R(prevPollTime), boundary)
                  /\ RLe(boundary, R(pollTime)))
          => info.isOnset)

----------------------------------------------------------------------------
(* The beat clock of the application polled with gaps: frames of Canvas that
   reach BeatClock.update(), some of them far apart (a pause, a stay in
   microphone mode), and the BPM effect *)
MaxGapTime == 3000      \* the clock is followed up to this time (ms)
MaxGapSetBPM == 1       \* number of BPM changes followed

PollGapSet == {100, 400, 1300}       \* ms from one operation to the next
GapBpmSet == {120}                   \* the store's bpm after a change

\* a frame that calls beatClock.update(), dt ms after the previous operation
PollAfterGap ==
    \E dt \in PollGapSet :
        /\ now + dt <= MaxGapTime
        /\ now' = now + dt
        /\ UpdateClock(now + dt)
        /\ UNCHANGED << detVars, detCallerVars, scenarioVars >>

\* the BPM effect after the store's bpm has changed to b
ChangeBpm ==
    \E b \in GapBpmSet :
        /\ nSetBPM < MaxGapSetBPM
        /\ b # bpm
        /\ SetClockBPM(now, b)
        /\ UNCHANGED << now, detVars, detCallerVars, scenarioVars >>

GapInit == ClockStarted /\ DetIdle

GapNext == PollAfterGap \/ ChangeBpm

GapSpec == GapInit /\ [][GapNext]_vars

\* the number of beat boundaries of the current tempo between the latest two
\* polls
BoundariesSincePoll ==
    CurrentBeat(pollTime, startTime, bpm) - CurrentBeat(prevPollTime, startTime, bpm)

\* C30: an update() that follows the previous one by a period spanning several
\* beat boundaries reports an onset and records the current beat index; an
\* update() in the same beat as the previous one reports none.
C30_OneOnsetAfterGap ==
    (op = "update" /\ chained /\ RLe(startTime, R(prevPollTime))) =>
        /\ (BoundariesSincePoll >= 2) =>
              (info.isOnset /\ beatCount = CurrentBeat(pollTime, startTime, bpm))
        /\ (BoundariesSincePoll = 0) => ~info.isOnset

\* the same on a clock whose BPM has not changed since start()
OneOnsetAfterGapSameBpm ==
    (nSetBPM = 0) => C30_OneOnsetAfterGap

----------------------------------------------------------------------------
(* The media streams of the analyzer: startMic() suspends at getUserMedia(), so
   calls of startMic() and stopMic() interleave at that point.  A stream is
   live from the moment getUserMedia() delivers it until its tracks are
   stopped. *)
MaxStreamStarts == 3    \* number of startMic() calls followed
MaxStreamStops == 2     \* number of stopMic() calls followed

\* startMic() up to the permission request; it returns at once when the
\* microphone is on
CallStartMic ==
    /\ nMicStarts < MaxStreamStarts
    /\ anMicStatus # "on"
    /\ nMicStarts' = nMicStarts + 1
    /\ anMicStatus' = "requesting"
    /\ pendingCalls' = pendingCalls + 1
    /\ micPending' = TRUE
    /\ UNCHANGED << anStream, liveStreams, nStreams >>
    /\ UNCHANGED << now, clockVars, callerVars, detVars, detCallerVars >>
    /\ UNCHANGED << analyser, anIsOnset, anLastOnsetTime, storeVars, userVars >>
    /\ UNCHANGED << lockVars, steadyVars, smoothVars, tapVars, longVars >>
    /\ UNCHANGED << anSensitivity, anSmoothing, nSettings, sceneVars, featureVars >>

\* the permission request of one pending startMic() settles; on success
\* this.stream is assigned the new stream, and the one held before is forgotten
\* with its tracks running
SettleStartMic ==
    \E status \in MicOutcomes :
        /\ pendingCalls > 0
        /\ pendingCalls' = pendingCalls - 1
        /\ micPending' = (pendingCalls > 1)
        /\ anMicStatus' = status
        /\ IF status = "on"
             THEN /\ nStreams' = nStreams + 1
                  /\ anStream' = nStreams + 1
                  /\ liveStreams' = liveStreams \cup {nStreams + 1}
                  /\ analyser' = TRUE
                  /\ ReplaceDetector
             ELSE UNCHANGED << nStreams, anStream, liveStreams, analyser, detVars,
                               detCallerVars >>
        /\ UNCHANGED << now, clockVars, callerVars, anIsOnset, anLastOnsetTime >>
        /\ UNCHANGED << storeVars, userVars, lockVars, steadyVars >>
        /\ UNCHANGED << smoothVars, tapVars, longVars, settingVars, sceneVars, featureVars >>

\* stopMic(): the tracks of this.stream are stopped, if there is one
CallStopMic ==
    /\ nResets < MaxStreamStops
    /\ liveStreams' = liveStreams \ {anStream}
    /\ anStream' = 0
    /\ analyser' = FALSE
    /\ anMicStatus' = "off"
    /\ ResetDetector
    /\ smoothedFeatures' = DefaultFeatures
    /\ updatedFeatures' = DefaultFeatures
    /\ featureOp' = "stop"
    /\ UNCHANGED << nStreams, pendingCalls, micPending, anIsOnset, anLastOnsetTime >>
    /\ UNCHANGED << masterIntensity, fwdFeatures, nFeatureFrames >>
    /\ UNCHANGED << now, clockVars, callerVars, storeVars, userVars, lockVars, steadyVars >>
    /\ UNCHANGED << smoothVars, tapVars, longVars, settingVars, sceneVars >>

StreamInit == ClockInit /\ DetIdle

StreamNext == CallStartMic \/ SettleStartMic \/ CallStopMic

StreamSpec == StreamInit /\ [][StreamNext]_vars

\* C27: whenever micStatus is 'off' and no startMic() call is pending, every
\* stream obtained from getUserMedia() has had its tracks stopped.
C27_NoLiveStreamWhenOff ==
    (anMicStatus = "off" /\ pendingCalls = 0) => liveStreams = {}

----------------------------------------------------------------------------
(* The application at the frame rate of a display: animation frames closer
   together than the window of isCurrentlyOnset() *)
MaxFastTime == 500      \* the application is followed up to this time (ms)

FastGapSet == {20, 240}              \* ms from one animation frame to the next

FastFrame ==
    \E dt \in FastGapSet :
        /\ now + dt <= MaxFastTime
        /\ AnimateAfter(dt)

FastInit == AppInit

FastNext == FastFrame \/ EnableMic \/ MicSettle

FastSpec == FastInit /\ [][FastNext]_vars

\* C28: in microphone mode the BeatInfo of a frame carries isOnset = true
\* exactly when detectOnset() signalled an onset in that frame (frames of the
\* first 50 ms after time 0, where lastOnsetTime = 0 is still inside the window,
\* left aside).
C28_OnsetInItsFrameOnly ==
    (appOp = "frame" /\ frameBranch = "mic" /\ frameTime >= OnsetWindow) =>
        (fwdIsOnset <=> anIsOnset)

----------------------------------------------------------------------------
(* The audio features of the analyzer and the master intensity of the animation
   loop.  updatedFeatures is the value AudioAnalyzer.update() or stopMic() gave
   the smoothed features last; fwdFeatures is what the frame handed to the
   scenes. *)
MaxFeatureFrames == 5   \* number of animation frames in microphone mode followed

MaxIntensity == 2       \* setMasterIntensity clamps to [0, 2]
Bands == {"bass", "mid", "high", "energy"}

\* the band energies of one frame after the sensitivity and clamp(.., 0, 1)
RawFeatureSet ==
    { [bass |-> R(0), mid |-> R(0), high |-> R(0), energy |-> R(0)],
      [bass |-> R(1), mid |-> R(1), high |-> R(1), energy |-> R(1)] }

\* the positions of the Intensity slider that are followed
IntensitySet == {Rat(1, 2), R(1), R(MaxIntensity)}

RClamp(v, lo, hi) == IF RLt(v, lo) THEN lo ELSE IF RLt(hi, v) THEN hi ELSE v

\* smoothed * smoothing + raw * (1 - smoothing), band by band
SmoothFeatures(smoothed, raw, sm) ==
    [b \in Bands |->
        RAdd(RMul(smoothed[b], Rat(sm, Hundred)),
             RMul(raw[b], Rat(Hundred - sm, Hundred)))]

\* audioFeatures.energy *= masterIntensity, and so for bass, mid and high
ScaleFeatures(features, intensity) ==
    [b \in Bands |-> RMul(features[b], intensity)]

\* getFeatures() returns this.smoothedFeatures itself, and the scaling assigns
\* to the fields of that object: the analyzer's features after the frame are
\* the scaled ones
FeaturesAfterFrame(updated, scaled) == scaled

\* a frame of Canvas.animate in microphone mode: update(), getFeatures() and
\* the master intensity
MicFeatureFrame ==
    \E raw \in RawFeatureSet :
        /\ nFeatureFrames < MaxFeatureFrames
        /\ analyser /\ anMicStatus = "on"
        /\ nFeatureFrames' = nFeatureFrames + 1
        /\ featureOp' = "frame"
        /\ \E updated \in {SmoothFeatures(smoothedFeatures, raw, anSmoothing)} :
             \E scaled \in {ScaleFeatures(updated, masterIntensity)} :
                /\ updatedFeatures' = updated
                /\ fwdFeatures' = scaled
                /\ smoothedFeatures' = FeaturesAfterFrame(updated, scaled)
        /\ UNCHANGED << masterIntensity, streamVars >>
        /\ UNCHANGED << now, clockVars, callerVars, detVars, detCallerVars >>
        /\ UNCHANGED << lockVars, appVars, steadyVars >>
        /\ UNCHANGED << smoothVars, tapVars, longVars, settingVars, sceneVars >>

\* the Intensity slider: setMasterIntensity
SetMasterIntensity ==
    \E v \in IntensitySet :
        /\ masterIntensity' = RClamp(v, R(0), R(MaxIntensity))
        /\ masterIntensity' # masterIntensity
        /\ featureOp' = "intensity"
        /\ UNCHANGED << smoothedFeatures, fwdFeatures, updatedFeatures, nFeatureFrames,
                        streamVars >>
        /\ UNCHANGED << now, clockVars, callerVars, detVars, detCallerVars >>
        /\ UNCHANGED << lockVars, appVars, steadyVars >>
        /\ UNCHANGED << smoothVars, tapVars, longVars, settingVars, sceneVars >>

FeatureInit == ClockInit /\ DetIdle

FeatureNext ==
    \/ MicFeatureFrame \/ SetMasterIntensity
    \/ RequestMic \/ StartMicSettle \/ StopMic

FeatureSpec == FeatureInit /\ [][FeatureNext]_vars

\* C29: the analyzer's smoothed bass, mid, high and energy are the values
\* update() or stopMic() gave them last, and lie in [0, 1].
C29_NoFeedbackFromIntensity ==
    /\ smoothedFeatures = updatedFeatures
    /\ \A b \in Bands :
          RLe(R(0), smoothedFeatures[b]) /\ RLe(smoothedFeatures[b], R(1))

====
